---- MODULE Spec2Model ----
(***************************************************************************)
(* Weighted prize draw (src/prize_draw.py).                                *)
(*                                                                         *)
(* A Python str is a sequence of one-character strings, so that strip(),   *)
(* lower() and int() are computed character by character.  A dict is the   *)
(* sequence of its items in insertion order, each item a record            *)
(* [name, weight].  The module has two entry points: main() (run as a      *)
(* script) and a direct call of one of its functions on an arbitrary       *)
(* mapping (how the functions are exercised one by one).                   *)
(***************************************************************************)
EXTENDS Integers, Sequences, FiniteSets

\* ------------------------------------------------------------------ bounds
\* largest weight of a mapping passed in a direct call
MaxWeight == 3
\* largest num_winners of a direct call of draw_winners
MaxWinners == 3
\* largest draws of a direct call of simulate_probabilities
MaxDraws == 2

\* ---------------------------------------------------------------- constants
\* the draws main() passes to simulate_probabilities (line 131)
SimulationDraws == 1000

\* ----------------------------------------------------------------- strings
\* Python's None; no str equals it, a str being a sequence of single characters
None == <<"None">>

Whitespace == {" ", "\t"}

UpperChars == <<"A", "B", "C", "D", "E", "I", "N", "O", "T", "X", "Y">>

LowerChars == <<"a", "b", "c", "d", "e", "i", "n", "o", "t", "x", "y">>

\* str.lower() on one character
LowerChar(c) ==
    IF \E i \in 1..Len(UpperChars) : UpperChars[i] = c
    THEN LowerChars[CHOOSE i \in 1..Len(UpperChars) : UpperChars[i] = c]
    ELSE c

\* str.lower()
lower(s) == [i \in 1..Len(s) |-> LowerChar(s[i])]

RECURSIVE lstrip(_)
lstrip(s) ==
    IF s # <<>> /\ Head(s) \in Whitespace THEN lstrip(Tail(s)) ELSE s

RECURSIVE rstrip(_)
rstrip(s) ==
    IF s # <<>> /\ s[Len(s)] \in Whitespace
    THEN rstrip(SubSeq(s, 1, Len(s) - 1))
    ELSE s

\* str.strip()
strip(s) == rstrip(lstrip(s))

Digits == <<"0", "1", "2", "3", "4", "5", "6", "7", "8", "9">>

IsDigit(c) == \E i \in 1..Len(Digits) : Digits[i] = c

DigitVal(c) == (CHOOSE i \in 1..Len(Digits) : Digits[i] = c) - 1

RECURSIVE DecimalVal(_)
DecimalVal(ds) ==
    IF ds = <<>> THEN 0
    ELSE 10 * DecimalVal(SubSeq(ds, 1, Len(ds) - 1)) + DigitVal(ds[Len(ds)])

\* the digits of a literal: what follows its optional sign
Unsigned(s) == IF s # <<>> /\ Head(s) \in {"+", "-"} THEN Tail(s) ELSE s

\* int(s) raises ValueError unless s, stripped, is an optionally signed run of digits
IntRaises(s) ==
    LET ds == Unsigned(strip(s))
    IN  ds = <<>> \/ \E i \in 1..Len(ds) : ~IsDigit(ds[i])

\* int(s) where it does not raise
int(s) ==
    LET t == strip(s)
    IN  IF t # <<>> /\ Head(t) = "-" THEN 0 - DecimalVal(Unsigned(t))
        ELSE DecimalVal(Unsigned(t))

\* Python truthiness of a returned name: None and "" are false
Falsy(v) == v = None \/ v = <<>>

\* ------------------------------------------------------------------- dicts
Item(n, w) == [name |-> n, weight |-> w]

DictKeys(d) == {d[i].name : i \in 1..Len(d)}

\* d[k] for a key of d
DictGet(d, k) == d[CHOOSE i \in 1..Len(d) : d[i].name = k].weight

\* d[k] = v: a present key keeps its position, a new key goes last
DictSet(d, k, v) ==
    IF k \in DictKeys(d)
    THEN [i \in 1..Len(d) |-> IF d[i].name = k THEN Item(k, v) ELSE d[i]]
    ELSE Append(d, Item(k, v))

\* mutant of DictDel: the entry is not removed
DictDelNothing(d, k) == d

\* mutant of DictDel: the oldest entry is removed instead of k
DictDelOldest(d, k) == Tail(d)

\* del d[k]
DictDel(d, k) == SelectSeq(d, LAMBDA it : it.name # k)

\* sum(d.values())
RECURSIVE SumValues(_)
SumValues(d) == IF d = <<>> THEN 0 ELSE Head(d).weight + SumValues(Tail(d))

\* ---------------------------------------------------------------- floats
\* A positive float is [m, e]: m its 53-bit significand as five limbs, most
\* significant first, the first the leading 1 and each of the others 13 bits;
\* e the exponent of the leading bit. Its value is m * 2^(e - 52).

LimbBits == 13
Radix == 2 ^ LimbBits

\* the number the limbs spell
RECURSIVE LimbsToInt(_)
LimbsToInt(limbs) ==
    IF limbs = <<>> THEN 0
    ELSE Radix * LimbsToInt(SubSeq(limbs, 1, Len(limbs) - 1)) + limbs[Len(limbs)]

\* limbs + 1, the first limb taking the last carry
RECURSIVE Inc(_)
Inc(limbs) ==
    LET n == Len(limbs)
    IN  IF n = 1 \/ limbs[n] < Radix - 1 THEN [limbs EXCEPT ![n] = @ + 1]
        ELSE Append(Inc(SubSeq(limbs, 1, n - 1)), 0)

\* limbs * c + carry for a small c, the first limb taking the last carry
RECURSIVE MulSmall(_, _, _)
MulSmall(limbs, c, carry) ==
    LET n == Len(limbs)
        val == limbs[n] * c + carry
    IN  IF n = 1 THEN <<val>>
        ELSE Append(MulSmall(SubSeq(limbs, 1, n - 1), c, val \div Radix), val % Radix)

\* A number cut off at some bit is [limbs, guard, sticky]: the part kept, the
\* first bit dropped, and whether any bit dropped after it was a 1.

\* x without its last b bits, 1 <= b <= LimbBits
ShiftLimb(x, b) ==
    LET n == Len(x.limbs)
        last == x.limbs[n]
    IN  [limbs |-> [j \in 1..n |->
                      (IF j = 1 THEN 0 ELSE (x.limbs[j - 1] % 2 ^ b) * 2 ^ (LimbBits - b))
                      + x.limbs[j] \div 2 ^ b],
         guard |-> (last \div 2 ^ (b - 1)) % 2,
         sticky |-> x.sticky \/ x.guard = 1 \/ last % 2 ^ (b - 1) # 0]

\* x without its last t bits
RECURSIVE ShiftRight(_, _)
ShiftRight(x, t) ==
    IF t = 0 THEN x
    ELSE IF t <= LimbBits THEN ShiftLimb(x, t)
    ELSE ShiftLimb(ShiftRight(x, t - LimbBits), LimbBits)

\* round to nearest, a tie going to the even one
RoundHalfEven(x) ==
    IF x.guard = 1 /\ (x.sticky \/ x.limbs[Len(x.limbs)] % 2 = 1) THEN Inc(x.limbs)
    ELSE x.limbs

\* the float of the 53 bits in limbs at exponent e, where rounding may have
\* carried them up to the next power of two
Float(limbs, e) ==
    IF limbs[1] = 2 THEN [m |-> [limbs EXCEPT ![1] = 1], e |-> e + 1]
    ELSE [m |-> limbs, e |-> e]

\* num / den = (n / d) * 2^e with d <= n < 2 * d
RECURSIVE Normalized(_, _, _)
Normalized(n, d, e) ==
    IF n < d THEN Normalized(2 * n, d, e - 1)
    ELSE IF n >= 2 * d THEN Normalized(n, 2 * d, e + 1)
    ELSE [n |-> n, d |-> d, e |-> e]

\* the first k limbs of r / d after the point (r < d), then the next bit as the
\* guard and what is left as the sticky
RECURSIVE DivLimbs(_, _, _, _)
DivLimbs(limbs, r, d, k) ==
    IF k = 0 THEN [limbs |-> limbs, guard |-> (2 * r) \div d, sticky |-> (2 * r) % d # 0]
    ELSE DivLimbs(Append(limbs, (Radix * r) \div d), (Radix * r) % d, d, k - 1)

\* the float num / den of two ints (num > 0, den > 0)
FloatDiv(num, den) ==
    LET x == Normalized(num, den, 0)
    IN  Float(RoundHalfEven(DivLimbs(<<1>>, x.n - x.d, x.d, 4)), x.e)

\* the float x * 100: a product of 59 or 60 bits rounded to 53
FloatTimes100(x) ==
    LET product == MulSmall(x.m, 100, 0)
        s == IF product[1] < 128 THEN 6 ELSE 7
        cut == ShiftRight([limbs |-> product, guard |-> 0, sticky |-> FALSE], s)
    IN  Float(RoundHalfEven(cut), x.e + s)

\* the digits of format(x, "6.2f") as a number of hundredths: the exact value of
\* the float x, rounded to two decimals, a tie going to the even one
FormatHundredths(x) ==
    LET z == MulSmall(x.m, 100, 0)
        cut == ShiftRight([limbs |-> z, guard |-> 0, sticky |-> FALSE], 52 - x.e)
    IN  LimbsToInt(RoundHalfEven(cut))

\* the text of format(num / den * 100, "6.2f"), in hundredths (num >= 0, den > 0)
Fmt2(num, den) ==
    IF num = 0 THEN 0 ELSE FormatHundredths(FloatTimes100(FloatDiv(num, den)))

\* ------------------------------------------------------------------- state
VARIABLES
    pc,          \* control location: a prompt of main(), a function body, or an end
    caller,      \* "main": run as a script; "direct": one function called on its own
    fn,          \* the core function entered last ("main" before the first)
    heap,        \* the dict objects: d1 is the participants mapping, d2 the one
                 \* draw_winners allocates
    pool,        \* draw_winners' local pool: the object it names, or "unbound"
    num_winners, \* main's num_winners / draw_winners' parameter (0: not yet read)
    draws,       \* simulate_probabilities' parameter
    i,           \* iterations of the running for loop completed (a local)
    limit,       \* min(num_winners, len(pool)), evaluated once at line 30 (a local)
    winners,     \* draw_winners' list
    results,     \* simulate_probabilities' Counter: key -> count (a local,
                 \* gone when the function returns)
    ret,         \* value a direct call of weighted_choice returned
    rng,         \* random.randint: calls made, and the last call's upper end and value
    errors,      \* "Error: total weight..." lines printed by weighted_choice
    out,         \* the report printed last (show_odds' or the simulation's):
                 \* one [name, shown] per line, shown in hundredths of a percent
    exc,         \* exception that ended the run ("" if none)
    line,        \* the last line input() returned
    name,        \* main's local name, while its weight is asked for
    logFile      \* records log_results appended to draw_log.txt in this run

vars == <<pc, caller, fn, heap, pool, num_winners, draws, i, limit, winners,
          results, ret, rng, errors, out, exc, line, name, logFile>>

\* the participants mapping: main's local, or the argument of a direct call
participants == heap["d1"]

\* ------------------------------------------------------------------ inputs
\* the lines typed at main's name prompt: one name, so that each of the
\* SimulationDraws trials of main's simulation has one outcome
NameInputs ==
    { <<>>, <<" ", "\t">>, <<"d", "o", "n", "e">>, <<" ", "D", "o", "N", "E", " ">>,
      <<"A">>, <<" ", "A">> }

IntInputs ==
    { <<>>, <<"x">>, <<"1", ".", "5">>, <<"0">>, <<"-", "1">>, <<"1">>,
      <<" ", "+", "2">>, <<"3", " ">> }

ChoiceInputs == { <<" ", "Y">>, <<"n">>, <<"x">> }

ExitInputs == { <<" ", "E", "x", "i", "t">>, <<"n", "o">> }

\* names of a mapping passed in a direct call
ArgNames == { <<>>, <<"A">>, <<"B">> }

ArgItems == { Item(n, w) : n \in ArgNames, w \in 0..MaxWeight }

RECURSIVE SeqsUpTo(_, _)
SeqsUpTo(S, n) ==
    IF n = 0 THEN { <<>> }
    ELSE LET shorter == SeqsUpTo(S, n - 1)
         IN  shorter \cup { Append(q, x) : q \in shorter, x \in S }

\* mappings of a direct call: no key twice
ArgDicts ==
    { d \in SeqsUpTo(ArgItems, Cardinality(ArgNames)) :
        \A a, b \in 1..Len(d) : d[a].name = d[b].name => a = b }

NoRng == [calls |-> 0, range |-> 0, r |-> 0]

InitCommon ==
    /\ pool = "unbound"
    /\ i = 0
    /\ limit = 0
    /\ winners = <<>>
    /\ results = <<>>
    /\ ret = None
    /\ rng = NoRng
    /\ errors = 0
    /\ out = <<>>
    /\ exc = ""
    /\ line = <<>>
    /\ name = <<>>
    /\ logFile = <<>>

\* python prize_draw.py: main() starts at line 90
InitMain ==
    /\ caller = "main"
    /\ fn = "main"
    /\ pc = "ask_name"
    /\ heap = [d1 |-> <<>>, d2 |-> <<>>]
    /\ num_winners = 0
    /\ draws = 0
    /\ InitCommon

\* one core function called on an arbitrary mapping
InitDirect ==
    /\ caller = "direct"
    /\ fn \in {"weighted_choice", "draw_winners", "show_odds", "simulate_probabilities"}
    /\ pc = fn
    /\ \E d \in ArgDicts : heap = [d1 |-> d, d2 |-> <<>>]
    /\ num_winners \in (IF fn = "draw_winners" THEN 0..MaxWinners ELSE {0})
    /\ draws \in (IF fn = "simulate_probabilities" THEN 0..MaxDraws ELSE {0})
    /\ InitCommon

Init == InitMain \/ InitDirect

\* ------------------------------------------------------- weighted_choice
\* mutant of scan: the test is r < 0
RECURSIVE scan_strict(_, _)
scan_strict(items, r) ==
    IF items = <<>> THEN None
    ELSE IF r - Head(items).weight < 0 THEN Head(items).name
    ELSE scan_strict(Tail(items), r - Head(items).weight)

\* lines 17-21: the loop over collection.items() for a drawn r
RECURSIVE scan(_, _)
scan(items, r) ==
    IF items = <<>> THEN None
    ELSE IF r - Head(items).weight <= 0 THEN Head(items).name
    ELSE scan(Tail(items), r - Head(items).weight)

\* mutant of pool_refused: a total weight of 1 is refused too
pool_refused_one(total_weight) == total_weight <= 1

\* line 13: the pool is refused
pool_refused(total_weight) == total_weight <= 0

\* lines 10-21: a call on `collection` returns `value`; it prints an error or
\* draws one random integer
weighted_choice(collection, value) ==
    LET total_weight == SumValues(collection)
    IN  IF pool_refused(total_weight)
        THEN /\ value = None
             /\ errors' = errors + 1
             /\ rng' = rng
        ELSE /\ \E r \in 1..total_weight :
                   /\ value = scan(collection, r)
                   /\ rng' = [calls |-> rng.calls + 1, range |-> total_weight, r |-> r]
             /\ errors' = errors

\* what a call may return
Returnable(collection) == DictKeys(collection) \cup {None}

\* where a core function returns to
ReturnTo(f) ==
    IF caller = "direct" THEN "returned"
    ELSE CASE f = "simulate_probabilities" -> "show_odds"
           [] f = "show_odds" -> "draw_winners"
           [] f = "draw_winners" -> "log_results"

\* a direct call of weighted_choice(participants)
CallWeightedChoice ==
    /\ pc = "weighted_choice"
    /\ \E value \in Returnable(participants) :
           /\ weighted_choice(participants, value)
           /\ ret' = value
    /\ pc' = "returned"
    /\ UNCHANGED <<caller, fn, heap, pool, num_winners, draws, i, limit, winners,
                   results, out, exc, line, name, logFile>>

\* ---------------------------------------------------------- draw_winners
\* mutant of dict_new: pool = participants, the same object
dict_alias(src) == src

\* line 29: dict(participants) is a new object
dict_new(src) == "d2"

\* line 30: min(num_winners, len(pool)), the number of iterations
min(n, size) == IF n <= size THEN n ELSE size

\* lines 28-30: winners = [], pool = dict(participants), range(...) evaluated
DrawBegin ==
    /\ pc = "draw_winners"
    /\ fn' = "draw_winners"
    /\ winners' = <<>>
    /\ pool' = dict_new("d1")
    /\ heap' = [heap EXCEPT ![pool'] = heap["d1"]]
    /\ limit' = min(num_winners, Len(heap'[pool']))
    /\ i' = 0
    /\ pc' = "draw_loop"
    /\ UNCHANGED <<caller, num_winners, draws, results, ret, rng, errors, out, exc, line, name, logFile>>

\* lines 31-35: an iteration whose pick is truthy
DrawPick ==
    /\ pc = "draw_loop"
    /\ i < limit
    /\ \E winner \in Returnable(heap[pool]) :
           /\ weighted_choice(heap[pool], winner)
           /\ ~Falsy(winner)
           /\ winners' = Append(winners, winner)
           /\ heap' = [heap EXCEPT ![pool] = DictDel(heap[pool], winner)]
    /\ i' = i + 1
    /\ UNCHANGED <<pc, caller, fn, pool, num_winners, draws, limit, results, ret,
                   out, exc, line, name, logFile>>

\* lines 31-33, 36: an iteration whose pick is falsy leaves the loop and returns
DrawBreak ==
    /\ pc = "draw_loop"
    /\ i < limit
    /\ \E winner \in Returnable(heap[pool]) :
           /\ weighted_choice(heap[pool], winner)
           /\ Falsy(winner)
    /\ pc' = ReturnTo("draw_winners")
    /\ pool' = "unbound"
    /\ heap' = [heap EXCEPT !["d2"] = <<>>]
    /\ i' = 0
    /\ limit' = 0
    /\ UNCHANGED <<caller, fn, num_winners, draws, winners, results, ret,
                   out, exc, line, name, logFile>>

\* lines 30, 36: the range is exhausted
DrawReturn ==
    /\ pc = "draw_loop"
    /\ i >= limit
    /\ pc' = ReturnTo("draw_winners")
    /\ pool' = "unbound"
    /\ heap' = [heap EXCEPT !["d2"] = <<>>]
    /\ i' = 0
    /\ limit' = 0
    /\ UNCHANGED <<caller, fn, num_winners, draws, winners, results, ret,
                   rng, errors, out, exc, line, name, logFile>>

\* ------------------------------------------------------------- show_odds
\* mutant of odds: the fraction, not multiplied by 100
odds_fraction(weight, total_weight) == Fmt2(weight, 100 * total_weight)

\* line 46, as line 47 prints it
odds(weight, total_weight) == Fmt2(weight, total_weight)

\* lines 43-48 with a total weight that line 46 can divide by
ShowOdds ==
    /\ pc = "show_odds"
    /\ participants = <<>> \/ SumValues(participants) # 0
    /\ fn' = "show_odds"
    /\ out' = [k \in 1..Len(participants) |->
                 [name |-> participants[k].name,
                  shown |-> odds(participants[k].weight, SumValues(participants))]]
    /\ pc' = ReturnTo("show_odds")
    /\ UNCHANGED <<caller, heap, pool, num_winners, draws, i, limit, winners, results,
                   ret, rng, errors, exc, line, name, logFile>>

\* line 46 on the first item when the total weight is 0
ShowOddsRaise ==
    /\ pc = "show_odds"
    /\ participants # <<>>
    /\ SumValues(participants) = 0
    /\ fn' = "show_odds"
    /\ exc' = "ZeroDivisionError"
    /\ pc' = "raised"
    /\ UNCHANGED <<caller, heap, pool, num_winners, draws, i, limit, winners, results,
                   ret, rng, errors, out, line, name, logFile>>

\* ------------------------------------------------ simulate_probabilities
\* Counter: a missing key reads as 0
CounterGet(c, k) == IF k \in DOMAIN c THEN c[k] ELSE 0

\* mutant of Tally: results[winner] = 1
TallyAssign(c, winner) ==
    [k \in DOMAIN c \cup {winner} |-> IF k = winner THEN 1 ELSE CounterGet(c, k)]

\* line 58: results[winner] += 1
Tally(c, winner) ==
    [k \in DOMAIN c \cup {winner} |-> CounterGet(c, k) + (IF k = winner THEN 1 ELSE 0)]

\* line 63, as line 64 prints it
observed(count, n) == Fmt2(count, n)

\* line 55
SimBegin ==
    /\ pc = "simulate_probabilities"
    /\ fn' = "simulate_probabilities"
    /\ results' = <<>>
    /\ i' = 0
    /\ pc' = "sim_loop"
    /\ UNCHANGED <<caller, heap, pool, num_winners, draws, limit, winners, ret, rng,
                   errors, out, exc, line, name, logFile>>

\* lines 56-58: one trial
SimTrial ==
    /\ pc = "sim_loop"
    /\ i < draws
    /\ \E winner \in Returnable(participants) :
           /\ weighted_choice(participants, winner)
           /\ results' = Tally(results, winner)
    /\ i' = i + 1
    /\ UNCHANGED <<pc, caller, fn, heap, pool, num_winners, draws, limit, winners, ret,
                   out, exc, line, name, logFile>>

\* lines 60-65: the report
SimReport ==
    /\ pc = "sim_loop"
    /\ i >= draws
    /\ participants = <<>> \/ draws # 0
    /\ out' = [k \in 1..Len(participants) |->
                 [name |-> participants[k].name,
                  shown |-> observed(CounterGet(results, participants[k].name), draws)]]
    /\ pc' = ReturnTo("simulate_probabilities")
    /\ results' = <<>>
    /\ i' = 0
    /\ UNCHANGED <<caller, fn, heap, pool, num_winners, draws, limit, winners,
                   ret, rng, errors, exc, line, name, logFile>>

\* line 63 on the first item when draws is 0
SimReportRaise ==
    /\ pc = "sim_loop"
    /\ i >= draws
    /\ participants # <<>>
    /\ draws = 0
    /\ exc' = "ZeroDivisionError"
    /\ pc' = "raised"
    /\ UNCHANGED <<caller, fn, heap, pool, num_winners, draws, i, limit, winners,
                   results, ret, rng, errors, out, line, name, logFile>>

\* ----------------------------------------------------------- log_results
\* lines 72-84: one record appended to the log file
log_results ==
    /\ pc = "log_results"
    /\ logFile' = Append(logFile, [participants |-> participants, winners |-> winners])
    /\ pc' = "ask_exit"
    /\ UNCHANGED <<caller, fn, heap, pool, num_winners, draws, i, limit, winners,
                   results, ret, rng, errors, out, exc, line, name>>

\* line 74: open() fails (no Desktop directory, no permission)
log_results_raise ==
    /\ pc = "log_results"
    /\ exc' = "OSError"
    /\ pc' = "raised"
    /\ UNCHANGED <<caller, fn, heap, pool, num_winners, draws, i, limit, winners,
                   results, ret, rng, errors, out, line, name, logFile>>

\* ------------------------------------------------------------------ main
\* mutant of weight_rejected: 0 entries are accepted
weight_rejected_negative(weight) == weight < 0

\* line 107
weight_rejected(weight) == weight < 1

\* line 118
winners_rejected(n) == n < 1

\* line 99
is_done(s) == lower(s) = <<"d", "o", "n", "e">>

\* line 100: the mapping is truthy
may_finish(d) == d # <<>>

\* what main's prompts leave alone
MainFrame ==
    UNCHANGED <<caller, fn, pool, draws, i, limit, winners, results, ret, rng, errors,
                out, exc, logFile>>

\* lines 95-98: a blank name
BlankName ==
    /\ pc = "ask_name"
    /\ \E s \in NameInputs :
           /\ line' = s
           /\ strip(s) = <<>>
           /\ name' = strip(s)
    /\ UNCHANGED <<pc, heap, num_winners>>
    /\ MainFrame

\* lines 99-104: 'done' with no participant yet
PrematureDone ==
    /\ pc = "ask_name"
    /\ \E s \in NameInputs :
           /\ line' = s
           /\ strip(s) # <<>>
           /\ is_done(strip(s))
           /\ name' = strip(s)
    /\ ~may_finish(participants)
    /\ UNCHANGED <<pc, heap, num_winners>>
    /\ MainFrame

\* lines 99-101: 'done' ends the first loop
Done ==
    /\ pc = "ask_name"
    /\ \E s \in NameInputs :
           /\ line' = s
           /\ strip(s) # <<>>
           /\ is_done(strip(s))
           /\ name' = strip(s)
    /\ may_finish(participants)
    /\ pc' = "ask_winners"
    /\ UNCHANGED <<heap, num_winners>>
    /\ MainFrame

\* lines 95-105: a name; its weight is asked for next
ReadName ==
    /\ pc = "ask_name"
    /\ \E s \in NameInputs :
           /\ line' = s
           /\ strip(s) # <<>>
           /\ ~is_done(strip(s))
           /\ name' = strip(s)
    /\ pc' = "ask_weight"
    /\ UNCHANGED <<heap, num_winners>>
    /\ MainFrame

\* lines 106, 111-112: int() raises ValueError
BadWeight ==
    /\ pc = "ask_weight"
    /\ \E s \in IntInputs :
           /\ line' = s
           /\ IntRaises(s)
    /\ pc' = "ask_name"
    /\ UNCHANGED <<heap, num_winners, name>>
    /\ MainFrame

\* lines 106-109: a weight below 1
LowWeight ==
    /\ pc = "ask_weight"
    /\ \E s \in IntInputs :
           /\ line' = s
           /\ ~IntRaises(s)
           /\ weight_rejected(int(s))
    /\ pc' = "ask_name"
    /\ UNCHANGED <<heap, num_winners, name>>
    /\ MainFrame

\* lines 106-110: participants[name] = weight
AddParticipant ==
    /\ pc = "ask_weight"
    /\ \E s \in IntInputs :
           /\ line' = s
           /\ ~IntRaises(s)
           /\ ~weight_rejected(int(s))
           /\ heap' = [heap EXCEPT !["d1"] = DictSet(participants, name, int(s))]
    /\ pc' = "ask_name"
    /\ UNCHANGED <<num_winners, name>>
    /\ MainFrame

\* lines 117, 122-123: int() raises ValueError
BadWinners ==
    /\ pc = "ask_winners"
    /\ \E s \in IntInputs :
           /\ line' = s
           /\ IntRaises(s)
    /\ UNCHANGED <<pc, heap, num_winners, name>>
    /\ MainFrame

\* lines 117-120: num_winners is assigned, then refused
LowWinners ==
    /\ pc = "ask_winners"
    /\ \E s \in IntInputs :
           /\ line' = s
           /\ ~IntRaises(s)
           /\ winners_rejected(int(s))
           /\ num_winners' = int(s)
    /\ UNCHANGED <<pc, heap, name>>
    /\ MainFrame

\* lines 117-121
ReadWinners ==
    /\ pc = "ask_winners"
    /\ \E s \in IntInputs :
           /\ line' = s
           /\ ~IntRaises(s)
           /\ ~winners_rejected(int(s))
           /\ num_winners' = int(s)
    /\ pc' = "ask_sim"
    /\ UNCHANGED <<heap, name>>
    /\ MainFrame

\* lines 129-132: 'y' calls simulate_probabilities(participants, draws=1000)
ChooseSimulation ==
    /\ pc = "ask_sim"
    /\ \E s \in ChoiceInputs :
           /\ line' = s
           /\ lower(strip(s)) = <<"y">>
    /\ draws' = SimulationDraws
    /\ pc' = "simulate_probabilities"
    /\ UNCHANGED <<caller, fn, heap, pool, num_winners, i, limit, winners, results,
                   ret, rng, errors, out, exc, name, logFile>>

\* lines 133-135, 142: 'n' goes on to show_odds
SkipSimulation ==
    /\ pc = "ask_sim"
    /\ \E s \in ChoiceInputs :
           /\ line' = s
           /\ lower(strip(s)) = <<"n">>
    /\ pc' = "show_odds"
    /\ UNCHANGED <<heap, num_winners, name>>
    /\ MainFrame

\* lines 136-137
BadChoice ==
    /\ pc = "ask_sim"
    /\ \E s \in ChoiceInputs :
           /\ line' = s
           /\ lower(strip(s)) \notin { <<"y">>, <<"n">> }
    /\ UNCHANGED <<pc, heap, num_winners, name>>
    /\ MainFrame

\* lines 163-167
Exit ==
    /\ pc = "ask_exit"
    /\ \E s \in ExitInputs :
           /\ line' = s
           /\ lower(strip(s)) = <<"e", "x", "i", "t">>
    /\ pc' = "exit"
    /\ UNCHANGED <<heap, num_winners, name>>
    /\ MainFrame

\* lines 168-169
BadExit ==
    /\ pc = "ask_exit"
    /\ \E s \in ExitInputs :
           /\ line' = s
           /\ lower(strip(s)) # <<"e", "x", "i", "t">>
    /\ UNCHANGED <<pc, heap, num_winners, name>>
    /\ MainFrame

Next ==
    \/ CallWeightedChoice
    \/ DrawBegin \/ DrawPick \/ DrawBreak \/ DrawReturn
    \/ ShowOdds \/ ShowOddsRaise
    \/ SimBegin \/ SimTrial \/ SimReport \/ SimReportRaise
    \/ log_results \/ log_results_raise
    \/ BlankName \/ PrematureDone \/ Done \/ ReadName
    \/ BadWeight \/ LowWeight \/ AddParticipant
    \/ BadWinners \/ LowWinners \/ ReadWinners
    \/ ChooseSimulation \/ SkipSimulation \/ BadChoice
    \/ Exit \/ BadExit

Spec == Init /\ [][Next]_vars

\* ----------------------------------------------------------- properties
AllPositive(d) == \A k \in 1..Len(d) : d[k].weight >= 1

NonBlank(d) == \A k \in 1..Len(d) : d[k].name # <<>>

NoRepeat(q) == \A a, b \in 1..Len(q) : q[a] = q[b] => a = b

Elements(q) == {q[k] : k \in 1..Len(q)}

\* total weight of the first k entries
PrefixSum(d, k) == SumValues(SubSeq(d, 1, k))

\* the name whose block of the stacked intervals holds r
BlockOwner(d, r) ==
    d[CHOOSE k \in 1..Len(d) : PrefixSum(d, k - 1) < r /\ r <= PrefixSum(d, k)].name

\* how many of the values 1..SumValues(d) make a pick from d return n
Chances(d, n) == Cardinality({r \in 1..SumValues(d) : scan(d, r) = n})

Abs(x) == IF x < 0 THEN 0 - x ELSE x

\* shown is the hundredth nearest to 100 * num / den
NearestHundredth(shown, num, den) == 2 * Abs(shown * den - 10000 * num) <= den

RECURSIVE SumShown(_)
SumShown(lines) == IF lines = <<>> THEN 0 ELSE Head(lines).shown + SumShown(Tail(lines))

RECURSIVE SumCounts(_)
SumCounts(c) ==
    IF DOMAIN c = {} THEN 0
    ELSE LET k == CHOOSE x \in DOMAIN c : TRUE
         IN  c[k] + SumCounts([x \in DOMAIN c \ {k} |-> c[x]])

A == <<"A">>

B == <<"B">>

\* a direct call of weighted_choice has returned
PickReturned == fn = "weighted_choice" /\ pc = "returned"

\* draw_winners has returned and winners holds its result
DrawReturned ==
    fn = "draw_winners" /\ pc \in {"returned", "log_results", "ask_exit", "exit"}

\* C1: on a non-empty pool of weights >= 1 a pick returns the name of the pool
\* whose stacked-intervals block holds the drawn r in 1..T; each name is
\* returned for exactly weight(name) values of r, and the fallback return for none.
C1_PickInBlock ==
    (PickReturned /\ participants # <<>> /\ AllPositive(participants)) =>
        /\ rng.calls = 1
        /\ rng.range = SumValues(participants)
        /\ rng.r \in 1..SumValues(participants)
        /\ ret \in DictKeys(participants)
        /\ ret = BlockOwner(participants, rng.r)
        /\ \A n \in DictKeys(participants) :
               Chances(participants, n) = DictGet(participants, n)
        /\ \A r \in 1..SumValues(participants) : scan(participants, r) # None

\* a pick that lands on the last value of the second of three blocks
C1_Witness ==
    /\ PickReturned
    /\ Len(participants) = 3
    /\ AllPositive(participants)
    /\ participants[2].weight >= 2
    /\ rng.r = PrefixSum(participants, 2)
    /\ ret = participants[2].name

\* C2: a pick from a pool of total weight <= 0 never returns to its caller.
C2_RefusedPickNeverReturns ==
    (fn = "weighted_choice" /\ SumValues(participants) <= 0) => pc # "returned"

\* C3: with non-blank names, weights >= 1 and k >= 1 the draw returns exactly
\* min(k, |participants|) names of participants, none twice; all of them when
\* k >= |participants|.
C3_DrawResult ==
    (/\ DrawReturned
     /\ NonBlank(participants)
     /\ AllPositive(participants)
     /\ num_winners >= 1) =>
        /\ Len(winners) = (IF num_winners <= Len(participants)
                           THEN num_winners ELSE Len(participants))
        /\ Elements(winners) \subseteq DictKeys(participants)
        /\ NoRepeat(winners)
        /\ (num_winners >= Len(participants) =>
               Elements(winners) = DictKeys(participants))

\* three winners asked of two participants, both drawn, the second one first
C3_Witness ==
    /\ DrawReturned
    /\ NonBlank(participants)
    /\ AllPositive(participants)
    /\ Len(participants) = 2
    /\ num_winners = 3
    /\ Len(winners) = 2
    /\ winners[1] = participants[2].name

\* positions inside draw_winners and simulate_probabilities
InDrawOrSimulation ==
    pc \in {"draw_winners", "draw_loop", "simulate_probabilities", "sim_loop"}

\* C4: no step of draw_winners or simulate_probabilities changes the caller's
\* participants mapping (names, weights, order).
C4_ParticipantsUnchanged ==
    [][InDrawOrSimulation => heap'["d1"] = heap["d1"]]_vars

\* main() after its simulation and a draw whose winner left the pool, the
\* participant still in the mapping
C4_Witness ==
    /\ caller = "main"
    /\ fn = "draw_winners"
    /\ pc = "log_results"
    /\ draws = SimulationDraws
    /\ rng.calls = SimulationDraws + 1
    /\ winners = <<A>>
    /\ participants = <<Item(A, 2)>>

\* show_odds has returned and out holds its report
OddsReturned == fn = "show_odds" /\ pc \in {"returned", "draw_winners"}

\* C5: for total weight T > 0 show_odds reports, for each participant in order,
\* 100 * weight / T to two decimals ({A:1,B:1} gives 50.00 and 50.00, {A:3,B:1}
\* gives 75.00 and 25.00, and the reported odds sum to 100 up to the rounding of
\* each line); the call draws no random number and changes no mapping or result.
C5_Odds ==
    /\ [](OddsReturned /\ SumValues(participants) > 0 =>
            /\ Len(out) = Len(participants)
            /\ \A k \in 1..Len(out) :
                   /\ out[k].name = participants[k].name
                   /\ NearestHundredth(out[k].shown, participants[k].weight,
                                       SumValues(participants))
            /\ 2 * Abs(SumShown(out) - 10000) <= Len(out)
            /\ (participants = <<Item(A, 1), Item(B, 1)>> =>
                   out = <<[name |-> A, shown |-> 5000], [name |-> B, shown |-> 5000]>>)
            /\ (participants = <<Item(A, 3), Item(B, 1)>> =>
                   out = <<[name |-> A, shown |-> 7500], [name |-> B, shown |-> 2500]>>))
    /\ [][pc = "show_odds" =>
            UNCHANGED <<heap, pool, rng, errors, winners, results, ret, num_winners,
                        draws, logFile>>]_vars

\* the odds of {A:3, B:1} have been shown
C5_Witness ==
    /\ OddsReturned
    /\ participants = <<Item(A, 3), Item(B, 1)>>
    /\ out[1].shown = 7500

\* a simulation over a non-empty mapping of weights >= 1 is in its loop
Simulating ==
    /\ pc = "sim_loop"
    /\ participants # <<>>
    /\ AllPositive(participants)

\* C6: over a non-empty mapping of weights >= 1 and N >= 1 trials, after i trials
\* simulate has made exactly i picks, each from the full mapping (upper end T),
\* its tally has only participant names as keys and counts that sum to i; it
\* reports after exactly N trials, for each name its count / N as a percentage.
C6_Simulation ==
    /\ [](Simulating =>
            /\ i <= draws
            /\ rng.calls = i
            /\ errors = 0
            /\ (i > 0 => rng.range = SumValues(participants))
            /\ DOMAIN results \subseteq DictKeys(participants)
            /\ SumCounts(results) = i)
    /\ [][(Simulating /\ draws >= 1 /\ pc' # "sim_loop") =>
            /\ i = draws
            /\ rng.calls = draws
            /\ exc' = ""
            /\ Len(out') = Len(participants)
            /\ \A k \in 1..Len(participants) :
                   /\ out'[k].name = participants[k].name
                   /\ NearestHundredth(out'[k].shown,
                                       CounterGet(results, participants[k].name), draws)]_vars

\* all trials of a simulation over two participants done, one name having won twice
C6_Witness ==
    /\ Simulating
    /\ Len(participants) >= 2
    /\ draws >= 2
    /\ i = draws
    /\ \E n \in DOMAIN results : results[n] >= 2

\* C7: a simulation over a mapping of total weight <= 0 tallies no placeholder
\* winner and does not complete with reported frequencies.
C7_SimulationSignalsRefusedPool ==
    (/\ fn = "simulate_probabilities"
     /\ draws >= 1
     /\ SumValues(participants) <= 0) =>
        /\ None \notin DOMAIN results
        /\ pc # "returned"

\* the participants not yet selected in the running draw, in insertion order
NotYetSelected == SelectSeq(participants, LAMBDA it : it.name \notin Elements(winners))

\* C8: while a draw runs, its pool is exactly the participants not yet selected;
\* the pick that selected the last winner drew from 1..T_i, the total weight of
\* those not selected before it; the next pick returns each not-yet-selected name
\* for exactly weight(name) of the values 1..T and a selected name for none; and
\* one random number is drawn per winner (none is rejected and drawn again).
C8_Renormalized ==
    pc = "draw_loop" =>
        /\ heap[pool] = NotYetSelected
        /\ rng.calls = draws + Len(winners)
        /\ (winners # <<>> =>
               /\ rng.range = SumValues(NotYetSelected)
                                + DictGet(participants, winners[Len(winners)])
               /\ rng.r \in 1..rng.range)
        /\ \A n \in DictKeys(NotYetSelected) :
               Chances(heap[pool], n) = DictGet(participants, n)
        /\ \A r \in 1..SumValues(heap[pool]) :
               scan(heap[pool], r) \notin Elements(winners)

\* a draw from three participants of different weights about to make its third pick
C8_Witness ==
    /\ pc = "draw_loop"
    /\ Len(participants) = 3
    /\ participants[1].weight < participants[2].weight
    /\ participants[2].weight < participants[3].weight
    /\ winners = <<participants[2].name, participants[1].name>>
    /\ i < limit

\* the entries of d with a weight above 0
Positive(d) == SelectSeq(d, LAMBDA it : it.weight > 0)

\* C9: with weights >= 0 (non-blank names) and k >= 1 a direct call of the draw
\* raises nothing and returns min(k, number of participants of weight > 0)
\* distinct names, each of a weight > 0; none when the total weight is 0.
C9_DrawStopsEarly ==
    (/\ caller = "direct"
     /\ fn = "draw_winners"
     /\ NonBlank(participants)
     /\ num_winners >= 1) =>
        /\ pc # "raised"
        /\ exc = ""
        /\ (pc = "returned" =>
               /\ Len(winners) = (IF num_winners <= Len(Positive(participants))
                                  THEN num_winners ELSE Len(Positive(participants)))
               /\ Elements(winners) \subseteq DictKeys(Positive(participants))
               /\ NoRepeat(winners)
               /\ (SumValues(participants) = 0 => winners = <<>>))

\* a draw of two from {zero-weight, positive} that returned the positive one
\* after its second pick failed
C9_Witness ==
    /\ caller = "direct"
    /\ fn = "draw_winners"
    /\ pc = "returned"
    /\ Len(participants) = 2
    /\ participants[1].weight = 0
    /\ participants[2].weight > 0
    /\ NonBlank(participants)
    /\ num_winners = 2
    /\ winners = <<participants[2].name>>
    /\ errors = 1

\* main() is inside a core function or about to call one
HandedOver ==
    /\ caller = "main"
    /\ pc \in {"simulate_probabilities", "sim_loop", "show_odds", "draw_winners",
               "draw_loop"}

\* the line read at the name prompt is refused
NameRefused(s) ==
    \/ strip(s) = <<>>
    \/ (lower(strip(s)) = <<"d", "o", "n", "e">> /\ participants = <<>>)

\* the line read at the weight prompt is refused
WeightRefused(s) == IntRaises(s) \/ int(s) < 1

\* C10: the mapping main() hands to the simulation, show_odds and the draw is
\* non-empty, with non-blank, distinct names, none of them 'done', and weights
\* >= 1, and num_winners is >= 1 by then; a refused line (blank name, premature
\* 'done', invalid or < 1 weight) leaves the mapping as it was.
C10_MainHandsValidSet ==
    /\ [](HandedOver =>
            /\ participants # <<>>
            /\ NonBlank(participants)
            /\ AllPositive(participants)
            /\ \A a, b \in 1..Len(participants) :
                   participants[a].name = participants[b].name => a = b
            /\ \A k \in 1..Len(participants) :
                   /\ strip(participants[k].name) = participants[k].name
                   /\ lower(participants[k].name) # <<"d", "o", "n", "e">>
            /\ num_winners >= 1)
    /\ [][((pc = "ask_name" /\ NameRefused(line'))
           \/ (pc = "ask_weight" /\ WeightRefused(line'))) =>
            (heap' = heap /\ pc' = "ask_name")]_vars

\* main() in its draw of two winners from {A:3}, after its simulation
C10_Witness ==
    /\ caller = "main"
    /\ pc = "draw_loop"
    /\ participants = <<Item(A, 3)>>
    /\ draws = SimulationDraws
    /\ num_winners = 2
    /\ winners = <<A>>

====
